---- MODULE Spec2Model ----
(***************************************************************************)
(* dist02cyclonedx: SBOM assembly (generateSBOM, src/main.go) on top of    *)
(* the worker-pool dependency fetcher (GetDependencies,                    *)
(* src/dependencies.go).                                                   *)
(*                                                                         *)
(* Strings are TLA+ strings; a command's output is the sequence of its     *)
(* lines.  A listing line is the sequence of its whitespace-separated      *)
(* fields (strings.Fields), a dependency line is the line after            *)
(* strings.TrimSpace ("" for a blank line).                                *)
(*                                                                         *)
(* The four worker goroutines run the same closure and carry no identity,  *)
(* so the pool is kept as counts per position: idle (blocked in            *)
(* `range jobs`), fetching (inside fetchDependencies, one entry per call   *)
(* in progress), sending (holding a result for `results <-`), exited.      *)
(***************************************************************************)
EXTENDS Integers, Sequences, FiniteSets, Bags, TLC

VARIABLES
    distro,         \* --distro argument of the run
    listOut,        \* what the package-listing command yields: [fail, lines]
    fetchOut,       \* what the dependency command yields per package: [fail, lines]
    spdxSchema,     \* --spdx-schema: [given, readable, enum] of the schema file
    licOut,         \* per package: the license command's outcome and the license files
    output,         \* --output argument ("" for stdout)
    apiURL,         \* --api-url argument
    apiKey,         \* --api-key argument
    issued,         \* serial numbers of the documents of earlier runs
    configErr,      \* viper.ReadInConfig fails (no configuration file)
    call,           \* a direct call of one function: [fn, ...arguments], or NoCall
    pc,             \* position of the main goroutine
    packageManager, \* generateSBOM: packageManager
    packages,       \* generateSBOM: packages (result of listPackages)
    components,     \* generateSBOM: components
    componentMap,   \* generateSBOM: componentMap (package name -> BOMRef)
    packageNames,   \* GetDependencies: packageNames (the batch)
    jobs,           \* GetDependencies: jobs channel buffer
    jobsClosed,     \* GetDependencies: close(jobs) has run
    sent,           \* GetDependencies: names sent by the producer loop
    results,        \* GetDependencies: results channel buffer
    idle,           \* workers blocked receiving from jobs
    fetching,       \* bag of package names with a fetchDependencies call in progress
    sending,        \* bag of results a worker is about to send
    exited,         \* workers that left `range jobs`
    collected,      \* GetDependencies: iterations of the collect loop done
    dependencyMap,  \* GetDependencies: dependencyMap
    gdRet,          \* GetDependencies: returned (map, err), or "running"
    genRet,         \* generateSBOM: returned (bom, err), or "running"
    spdxLicenses,   \* manage_licenses.go: spdxLicenses (the license vocabulary)
    stdout,         \* what the process has written to standard output, in order
    outFile,        \* content of the --output file, NoFile while unwritten
    subprocesses,   \* bag of the commands the process has launched
    dtrack,         \* Dependency-Track: its projects and the documents it holds
    requests,       \* HTTP requests the process has sent, with the answers' status
    upRet,          \* uploadSBOM: returned err, or "running"
    callRet         \* result of the direct call, NoCall while pending

vars == << distro, listOut, fetchOut, spdxSchema, licOut, output, apiURL, apiKey, issued,
           configErr, call, pc, packageManager, packages, components, componentMap,
           packageNames, jobs, jobsClosed, sent, results, idle, fetching, sending,
           exited, collected, dependencyMap, gdRet, genRet, spdxLicenses, stdout,
           outFile, subprocesses, dtrack, requests, upRet, callRet >>

(***************************************************************************)
(* Bounds of the model.                                                    *)
(***************************************************************************)
MaxPkgs == 2        \* longest package listing of the assembly inputs
MaxBatch == 5       \* length of the large batch (more names than workers)
MaxFail == 2        \* most failing packages in the large batch
MaxLines == 3       \* most lines of a listing handed to listPackages directly

(***************************************************************************)
(* Program constants.                                                      *)
(***************************************************************************)
numWorkers == 4

Nil == "nil"             \* the nil error, the empty string result
NilMap == [nil |-> TRUE]  \* the nil map[string][]string
NilBOM == [nil |-> TRUE]  \* the nil *cyclonedx.BOM
RootName == "RootComponent"
RootRef == "CDXRef-RootComponent"
DocumentRef == "CDXRef-DOCUMENT"

(***************************************************************************)
(* Maps (Go map[string]T) as functions with a finite domain.               *)
(***************************************************************************)
EmptyMap == [k \in {} |-> Nil]

MapPut(m, k, v) == [x \in (DOMAIN m) \cup {k} |-> IF x = k THEN v ELSE m[x]]

\* m[k] of a map[string][]string: the nil slice when k is absent.
MapGetSlice(m, k) == IF k \in DOMAIN m THEN m[k] ELSE << >>

Range(s) == { s[i] : i \in DOMAIN s }

\* Every order in which `for ref := range depSet` can visit the set S.
Orderings(S) ==
    { s \in [1..Cardinality(S) -> S] : \A i, j \in DOMAIN s : i # j => s[i] # s[j] }

(***************************************************************************)
(* Inputs of a run.                                                        *)
(***************************************************************************)
PkgNames == {"a", "b"}
PoolName(i) == "p" \o ToString(i)
PoolNames == { PoolName(i) : i \in 1..MaxBatch }
Names == PkgNames \cup PoolNames \cup {RootName, "2-a"}

Version == "1.0"
Line(n) == << n, Version >>

\* Sequences over S of length at most n.
SeqsUpTo(S, n) == UNION { [1..k -> S] : k \in 0..n }

\* Output of the dependency command, line by line after TrimSpace.
FetchLines ==
    { << >>, << "b" >>, << "a", "b" >>, << "b", "", "b" >>, << "zlib", "a" >> }
FetchOutcomes ==
    { [fail |-> FALSE, lines |-> l] : l \in FetchLines }
        \cup { [fail |-> TRUE, lines |-> << >>] }
NoDeps == [fail |-> FALSE, lines |-> << >>]

(***************************************************************************)
(* listPackages (src/main.go:414-455).                                     *)
(***************************************************************************)
SupportedManagers == {"dpkg", "apk", "rpm"}

RECURSIVE ParsePackages(_)
ParsePackages(lines) ==
    IF lines = << >> THEN << >>
    ELSE LET parts == Head(lines)
             rest == ParsePackages(Tail(lines))
         IN  IF Len(parts) = 2
             THEN << [Name |-> parts[1], Version |-> parts[2]] >> \o rest
             ELSE rest

\* Returns [err, packages].
listPackages(pm, out) ==
    IF pm \notin SupportedManagers
    THEN [err |-> "unsupported package manager: " \o pm, packages |-> << >>]
    ELSE IF out.fail
    THEN [err |-> "error executing command", packages |-> << >>]
    ELSE [err |-> Nil, packages |-> ParsePackages(out.lines)]

(***************************************************************************)
(* fetchDependencies (src/dependencies.go:57-91).                          *)
(***************************************************************************)
RECURSIVE NonBlank(_)
NonBlank(lines) ==
    IF lines = << >> THEN << >>
    ELSE IF Head(lines) # "" THEN << Head(lines) >> \o NonBlank(Tail(lines))
    ELSE NonBlank(Tail(lines))

\* Returns [dependencies, err].
fetchDependencies(pm, packageName, out) ==
    IF pm \notin SupportedManagers
    THEN [dependencies |-> << >>, err |-> "unsupported package manager: " \o pm]
    ELSE IF out.fail
    THEN [dependencies |-> << >>,
          err |-> "error executing dependency command: " \o packageName]
    ELSE [dependencies |-> NonBlank(out.lines), err |-> Nil]

(***************************************************************************)
(* Text.  TLC cannot take a string apart, so a text that the program       *)
(* splits is kept as the sequence of its pieces: every delimiter and every *)
(* white-space character is a piece of its own, the characters between     *)
(* them come as one or more pieces.  Str glues pieces into the Go string.  *)
(***************************************************************************)
RECURSIVE Str(_)
Str(t) == IF t = << >> THEN "" ELSE Head(t) \o Str(Tail(t))

WhiteSpace == {" ", "\t", "\n"}

RECURSIVE TrimLeft(_)
TrimLeft(t) == IF t # << >> /\ Head(t) \in WhiteSpace THEN TrimLeft(Tail(t)) ELSE t

Reverse(t) == [i \in 1..Len(t) |-> t[Len(t) + 1 - i]]

\* strings.TrimSpace
TrimSpace(t) == Reverse(TrimLeft(Reverse(TrimLeft(t))))

\* strings.FieldsFunc(t, f) for f true on the characters of delims: the
\* maximal runs of pieces between delimiters, empty runs dropped; cur is the
\* run being read.
RECURSIVE FieldsFunc(_, _, _)
FieldsFunc(t, delims, cur) ==
    LET done == IF cur = << >> THEN << >> ELSE << cur >>
    IN  IF t = << >> THEN done
        ELSE IF Head(t) \in delims
        THEN done \o FieldsFunc(Tail(t), delims, << >>)
        ELSE FieldsFunc(Tail(t), delims, Append(cur, Head(t)))

\* The characters of the names of the model that hold an upper-case letter
\* (TLC cannot take a string apart); any other name is one piece.
Spelling(s) ==
    CASE s = "Ubuntu" -> << "U", "buntu" >>
      [] s = "Alpine" -> << "A", "lpine" >>
      [] s = "DEBIAN" -> << "D", "E", "B", "I", "A", "N" >>
      [] s = "openSUSE" -> << "open", "S", "U", "S", "E" >>
      [] s = "RHEL" -> << "R", "H", "E", "L" >>
      [] s = "Arch" -> << "A", "rch" >>
      [] s = "DPKG" -> << "D", "P", "K", "G" >>
      [] OTHER -> << s >>

LowerOf(c) ==
    CASE c = "A" -> "a" [] c = "B" -> "b" [] c = "D" -> "d" [] c = "E" -> "e"
      [] c = "G" -> "g" [] c = "H" -> "h" [] c = "I" -> "i" [] c = "K" -> "k"
      [] c = "L" -> "l" [] c = "N" -> "n" [] c = "P" -> "p" [] c = "R" -> "r"
      [] c = "S" -> "s" [] c = "U" -> "u"
      [] OTHER -> c

\* strings.ToLower: every upper-case letter replaced, the rest kept.
ToLower(s) == LET t == Spelling(s) IN Str([i \in DOMAIN t |-> LowerOf(t[i])])

(***************************************************************************)
(* License resolution (src/manage_licenses.go).                            *)
(***************************************************************************)
licenseCorrections ==
    ("GPL-3+" :> "GPL-3.0+")
    @@ ("BSD-2-clause" :> "BSD-2-Clause")
    @@ ("BSD-3-clause" :> "BSD-3-Clause")
    @@ ("GPL-3" :> "GPL-3.0")
    @@ ("GPL-2+" :> "GPL-2.0+")
    @@ ("GPL-2" :> "GPL-2.0")
    @@ ("GPL-2)" :> "GPL-2.0")
    @@ ("GPL-1" :> "GPL-1.0")
    @@ ("GPL-1+" :> "GPL-1.0+")
    @@ ("LGPL-1" :> "LGPL-1.0")
    @@ ("LGPL-1+" :> "LGPL-1.0+")
    @@ ("LGPL-2" :> "LGPL-2.0")
    @@ ("LGPL-2+" :> "LGPL-2.0+")
    @@ ("LGPL-3" :> "LGPL-3.0")
    @@ ("LGPL-3+" :> "LGPL-3.0+")
    @@ ("AGPL-1" :> "AGPL-1.0")
    @@ ("AGPL-2" :> "AGPL-2.0")
    @@ ("AGPL-3" :> "AGPL-3.0")
    @@ ("WTFPL-2" :> "WTFPL")
    @@ ("APACHE-2-LLVM-EXCEPTIONS" :> "Apache-2.0")
    @@ ("Artistic" :> "Artistic-2.0")
    @@ ("GPL" :> "GPL-3.0")
    @@ ("GPL-any" :> "GPL-3.0")
    @@ ("BSD-2" :> "BSD-2-Clause")
    @@ ("BSD-3" :> "BSD-3-Clause")
    @@ ("BSD-4" :> "BSD-4-Clause")
    @@ ("BSD-4-clause" :> "BSD-4-Clause")
    @@ ("Apache-2" :> "Apache-2.0")
    @@ ("GFDL-NIV-1.3+" :> "GFDL-1.3")
    @@ ("SIL-OFL-1.1" :> "OFL-1.1")
    @@ ("SIL-1.1" :> "OFL-1.1")
    @@ ("AGPL-3+" :> "AGPL-3.0-or-later")
    @@ ("OpenLDAP-2.8" :> "OLDAP-2.8")
    @@ ("LPGL-2.1+" :> "LGPL-2.1-or-later")
    @@ ("MIT-1" :> "MIT")
    @@ ("BSD-3-clauses" :> "BSD-3-Clause")

LicenseDelimiters == {",", "|", "/", "&", " ", ";"}
bindWords == {"and", "or"}

\* A loop body that checks the token as written and corrects it afterwards.
CorrectOne_CheckFirst(token, vocabulary) ==
    LET isValid == token \in vocabulary
        license == IF token \in DOMAIN licenseCorrections
                   THEN licenseCorrections[token] ELSE token
    IN  IF token \in bindWords THEN [valid |-> << >>, printed |-> << >>]
        ELSE IF isValid THEN [valid |-> << license >>, printed |-> << >>]
        ELSE [valid |-> << >>, printed |-> << "Invalid license: " \o license >>]

\* A loop body that appends every token that is no bind word.
CorrectOne_KeepInvalid(token, vocabulary) ==
    LET license == IF token \in DOMAIN licenseCorrections
                   THEN licenseCorrections[token] ELSE token
    IN  IF token \in bindWords THEN [valid |-> << >>, printed |-> << >>]
        ELSE [valid |-> << license >>, printed |-> << >>]

\* The body of the loop over licenseList for one token: what it appends to
\* validLicenses and what it prints.
CorrectOne(token, vocabulary) ==
    LET license == IF token \in DOMAIN licenseCorrections
                   THEN licenseCorrections[token] ELSE token
    IN  IF token \in bindWords THEN [valid |-> << >>, printed |-> << >>]
        ELSE IF license \in vocabulary THEN [valid |-> << license >>, printed |-> << >>]
        ELSE [valid |-> << >>, printed |-> << "Invalid license: " \o license >>]

RECURSIVE CorrectAll(_, _)
CorrectAll(licenseList, vocabulary) ==
    IF licenseList = << >> THEN [valid |-> << >>, printed |-> << >>]
    ELSE LET one == CorrectOne(Str(TrimSpace(Head(licenseList))), vocabulary)
             rest == CorrectAll(Tail(licenseList), vocabulary)
         IN  [valid |-> one.valid \o rest.valid, printed |-> one.printed \o rest.printed]

\* correctLicenses: returns validLicenses, and the lines it printed.
correctLicenses(licenses, vocabulary) ==
    CorrectAll(FieldsFunc(licenses, LicenseDelimiters, << >>), vocabulary)

UnknownLicense == << "UNKNOWN" >>

\* The text after "License:" of the first such line of a file, or NotFound.
NotFound == << "not found" >>

RECURSIVE ScanLicenseLine(_)
ScanLicenseLine(lines) ==
    IF lines = << >> THEN NotFound
    ELSE LET line == TrimSpace(Head(lines))
         IN  IF line # << >> /\ Head(line) = "License:"
             THEN TrimSpace(Tail(line))
             ELSE ScanLicenseLine(Tail(lines))

\* fallbackFetchLicense: files are the three licensePaths in order, each
\* [readable, lines].
RECURSIVE fallbackFetchLicense(_)
fallbackFetchLicense(files) ==
    IF files = << >> THEN UnknownLicense
    ELSE LET found == IF Head(files).readable
                      THEN ScanLicenseLine(Head(files).lines) ELSE NotFound
         IN  IF found # NotFound THEN found ELSE fallbackFetchLicense(Tail(files))

\* The raw license text FetchPackageLicense hands to correctLicenses; env is
\* [cmd |-> [fail, out], files].
RawLicense(pm, env) ==
    IF pm \notin SupportedManagers THEN fallbackFetchLicense(env.files)
    ELSE IF env.cmd.fail \/ env.cmd.out = << >> THEN fallbackFetchLicense(env.files)
    ELSE TrimSpace(env.cmd.out)

\* FetchPackageLicense: [valid |-> the returned list, printed |-> its output].
FetchPackageLicense(pm, env, vocabulary) == correctLicenses(RawLicense(pm, env), vocabulary)

\* Commands launched, as [kind, manager, arg].
Cmd(kind, pm, arg) == [kind |-> kind, manager |-> pm, arg |-> arg]

\* A loader that takes a file it cannot read or parse for an empty schema.
loadSPDXSchema_Lenient(schema) ==
    [err |-> Nil, licenses |-> Range(schema.enum),
     printed |-> << "Parsing SPDX schema...",
                    "Loaded " \o ToString(Cardinality(Range(schema.enum)))
                       \o " SPDX licenses" >>]

\* loadSPDXSchema: [err, licenses, printed] for a schema file
\* [given, readable, parses, enum].
loadSPDXSchema(schema) ==
    IF ~schema.readable
    THEN [err |-> "error opening SPDX schema file", licenses |-> {}, printed |-> << >>]
    ELSE IF ~schema.parses
    THEN [err |-> "failed to parse SPDX schema", licenses |-> {}, printed |-> << >>]
    ELSE [err |-> Nil, licenses |-> Range(schema.enum),
          printed |-> << "Parsing SPDX schema...",
                         "Loaded " \o ToString(Cardinality(Range(schema.enum)))
                            \o " SPDX licenses" >>]

(***************************************************************************)
(* generateSBOM, first half (src/main.go:257-357): package manager,        *)
(* components, componentMap and the batch handed to GetDependencies.       *)
(***************************************************************************)
\* A switch whose default falls back to dpkg.
PackageManagerOf_Default(d) ==
    LET l == ToLower(d)
    IN  CASE l = "alpine" -> "apk"
          [] l \in {"centos", "fedora", "rhel", "opensuse", "rocky"} -> "rpm"
          [] OTHER -> "dpkg"

PackageManagerOf(d) ==
    LET l == ToLower(d)
    IN  CASE l \in {"ubuntu", "debian"} -> "dpkg"
          [] l = "alpine" -> "apk"
          [] l \in {"centos", "fedora", "rhel", "opensuse", "rocky"} -> "rpm"
          [] OTHER -> Nil

rootComponent == [Name |-> RootName, Version |-> Version, BOMRef |-> RootRef]

\* A reference built from the name alone.
bomRef_NoOrdinal(i, name) == "1-" \o name

\* fmt.Sprintf("%d-%s", i+1, pkg.Name) for the 0-based index i.
bomRef(i, name) == ToString(i + 1) \o "-" \o name

\* A loop that skips a package whose name it has already indexed.
RECURSIVE BuildComponents_SkipSeen(_, _, _, _)
BuildComponents_SkipSeen(pkgs, k, comps, cmap) ==
    IF k > Len(pkgs) THEN [components |-> comps, componentMap |-> cmap]
    ELSE LET pkg == pkgs[k]
             ref == bomRef(k - 1, pkg.Name)
             component == [Name |-> pkg.Name, Version |-> pkg.Version, BOMRef |-> ref]
         IN  IF pkg.Name \in DOMAIN cmap
             THEN BuildComponents_SkipSeen(pkgs, k + 1, comps, cmap)
             ELSE BuildComponents_SkipSeen(pkgs, k + 1, Append(comps, component),
                                           MapPut(cmap, pkg.Name, ref))

\* The loop over packages; k is the 1-based position, so the Go index is k-1.
RECURSIVE BuildComponents(_, _, _, _)
BuildComponents(pkgs, k, comps, cmap) ==
    IF k > Len(pkgs) THEN [components |-> comps, componentMap |-> cmap]
    ELSE LET pkg == pkgs[k]
             ref == bomRef(k - 1, pkg.Name)
             component == [Name |-> pkg.Name, Version |-> pkg.Version, BOMRef |-> ref]
         IN  BuildComponents(pkgs, k + 1, Append(comps, component),
                             MapPut(cmap, pkg.Name, ref))

\* The batch of src/distro2sbom.go:296-299: the names of components[1:].
filteredPackageNames_ByPosition(comps) ==
    LET NamesOf(cs) == [i \in DOMAIN cs |-> cs[i].Name]
    IN  IF comps = << >> THEN << >> ELSE NamesOf(Tail(comps))

\* packageNames := names of all components; filteredPackageNames drops "RootComponent".
RECURSIVE filteredPackageNames(_)
filteredPackageNames(comps) ==
    IF comps = << >> THEN << >>
    ELSE IF Head(comps).Name # RootName
    THEN << Head(comps).Name >> \o filteredPackageNames(Tail(comps))
    ELSE filteredPackageNames(Tail(comps))

\* The license loop of main.go:303-315: the IDs kept for the component.
ComponentLicenses(licenses) == SelectSeq(licenses, LAMBDA l : l # "UNKNOWN")

\* Components that carry the tokens of the raw license string as they are.
AttachLicenses_Unchecked(comps, pm, lic, vocabulary) ==
    [i \in DOMAIN comps |->
        IF i = 1 THEN comps[i]
        ELSE [Name |-> comps[i].Name, Version |-> comps[i].Version,
              BOMRef |-> comps[i].BOMRef,
              Licenses |->
                  LET fields == FieldsFunc(RawLicense(pm, lic[comps[i].Name]),
                                           LicenseDelimiters, << >>)
                  IN  [k \in DOMAIN fields |-> Str(TrimSpace(fields[k]))]]]

\* The components with the licenses resolved for each package (main.go:289);
\* lic gives the license environment per package name.
AttachLicenses(comps, pm, lic, vocabulary) ==
    [i \in DOMAIN comps |->
        IF i = 1 THEN comps[i]
        ELSE [Name |-> comps[i].Name, Version |-> comps[i].Version,
              BOMRef |-> comps[i].BOMRef,
              Licenses |-> ComponentLicenses(
                  FetchPackageLicense(pm, lic[comps[i].Name], vocabulary).valid)]]

\* What the FetchPackageLicense calls of the component loop print, in order.
RECURSIVE LicensePrints(_, _, _, _)
LicensePrints(pkgs, pm, lic, vocabulary) ==
    IF pkgs = << >> THEN << >>
    ELSE FetchPackageLicense(pm, lic[Head(pkgs).Name], vocabulary).printed
            \o LicensePrints(Tail(pkgs), pm, lic, vocabulary)

\* The command each function launches: none for an unsupported manager.
listPackagesCmds(pm) ==
    IF pm \in SupportedManagers THEN SetToBag({ Cmd("list", pm, "") }) ELSE EmptyBag

FetchPackageLicenseCmds(pm, packageName) ==
    IF pm \in SupportedManagers
    THEN SetToBag({ Cmd("license", pm, packageName) }) ELSE EmptyBag

fetchDependenciesCmds(pm, packageName) ==
    IF pm \in SupportedManagers
    THEN SetToBag({ Cmd("dependencies", pm, packageName) }) ELSE EmptyBag

RECURSIVE LicenseCmds(_, _)
LicenseCmds(pkgs, pm) ==
    IF pkgs = << >> THEN EmptyBag
    ELSE FetchPackageLicenseCmds(pm, Head(pkgs).Name) (+) LicenseCmds(Tail(pkgs), pm)

\* Entries of stdout: a line of text, or the marshalled document.
Text(line) == [document |-> FALSE, text |-> line]
Texts(lines) == [i \in DOMAIN lines |-> Text(lines[i])]

(***************************************************************************)
(* generateSBOM, second half (src/main.go:339-390): the dependency edges.  *)
(***************************************************************************)
\* A depSet that keeps the raw names instead of looking them up.
depSet_RawNames(comp, depMap, cmap) == Range(MapGetSlice(depMap, comp.Name))

\* depSet of one component: the refs its raw dependency names resolve to.
depSet(comp, depMap, cmap) ==
    { cmap[dep] : dep \in Range(MapGetSlice(depMap, comp.Name)) \cap DOMAIN cmap }

\* An iteration that emits the edge under the component's name.
EdgeStep_RefByName(bomDeps, comp, depRefs) ==
    LET withEdge == IF Len(depRefs) > 0
                    THEN Append(bomDeps, [Ref |-> comp.Name, Dependencies |-> depRefs])
                    ELSE bomDeps
    IN  [withEdge EXCEPT ![1].Dependencies = Append(@, comp.BOMRef)]

\* An iteration that emits the edge also when depRefs is empty.
EdgeStep_Always(bomDeps, comp, depRefs) ==
    LET withEdge == Append(bomDeps, [Ref |-> comp.BOMRef, Dependencies |-> depRefs])
    IN  [withEdge EXCEPT ![1].Dependencies = Append(@, comp.BOMRef)]

\* One iteration of the loop at main.go:363 with depRefs in the given order.
EdgeStep(bomDeps, comp, depRefs) ==
    LET withEdge == IF Len(depRefs) > 0
                    THEN Append(bomDeps, [Ref |-> comp.BOMRef, Dependencies |-> depRefs])
                    ELSE bomDeps
    IN  [withEdge EXCEPT ![1].Dependencies = Append(@, comp.BOMRef)]

\* The components the edge loop ranges over.
EdgeLoopComponents(comps) == comps

\* Every dependency list the loop can produce (map iteration order is free).
RECURSIVE EdgeRuns(_, _, _, _)
EdgeRuns(comps, depMap, cmap, bomDeps) ==
    IF comps = << >> THEN { bomDeps }
    ELSE UNION { EdgeRuns(Tail(comps), depMap, cmap,
                          EdgeStep(bomDeps, Head(comps), depRefs)) :
                 depRefs \in Orderings(depSet(Head(comps), depMap, cmap)) }

bomDependencies(comps, depMap, cmap) ==
    EdgeRuns(EdgeLoopComponents(comps), depMap, cmap,
             << [Ref |-> DocumentRef, Dependencies |-> << >>] >>)

(***************************************************************************)
(* Upload to Dependency-Track (src/unnamed/part_002).  The server holds    *)
(* projects [name, version, parent, uuid] and the documents pushed per     *)
(* project.  It answers PUT /api/v1/project with 201 and a new uuid, or    *)
(* with 409 when a project of that name and version exists; GET            *)
(* /api/v1/project?name= with 200 and the projects of that name in an      *)
(* order of its choosing; any request may instead fail with 500.  Every    *)
(* operator yields the set of outcomes the server's answers allow.         *)
(***************************************************************************)
StatusOK == "200 OK"
StatusCreated == "201 Created"
StatusConflict == "409 Conflict"
StatusError == "500 Internal Server Error"

NilUUID == "nil"
ServerUUID(name, version) == "uuid:" \o name \o ":" \o version

\* A request the process sent, with the status of the server's answer.
Request(method, path, body, status) ==
    [method |-> method, path |-> path, body |-> body, status |-> status]

ProjectsNamed(server, name) == { p \in server.projects : p.name = name }

\* getProjectUUID: outcomes [uuid, err, requests].
getProjectUUID(server, name) ==
    LET req(status) ==
            << Request("GET", "/api/v1/project?name=" \o name, [query |-> name], status) >>
    IN  { [uuid |-> NilUUID, err |-> "unexpected status code: " \o StatusError,
           requests |-> req(StatusError)] }
        \cup
        (IF ProjectsNamed(server, name) = {}
         THEN { [uuid |-> NilUUID, err |-> "project not found",
                 requests |-> req(StatusOK)] }
         ELSE { [uuid |-> p.uuid, err |-> Nil, requests |-> req(StatusOK)] :
                  p \in ProjectsNamed(server, name) })

\* The answers of the server to PUT /api/v1/project: [status, uuid, server].
PutProject(server, name, version, parentUUID) ==
    { [status |-> StatusError, uuid |-> NilUUID, server |-> server] }
    \cup
    (IF \E p \in server.projects : p.name = name /\ p.version = version
     THEN { [status |-> StatusConflict, uuid |-> NilUUID, server |-> server] }
     ELSE { [status |-> StatusCreated, uuid |-> ServerUUID(name, version),
             server |-> [server EXCEPT !.projects = @ \cup
                            { [name |-> name, version |-> version,
                               parent |-> parentUUID,
                               uuid |-> ServerUUID(name, version)] }]] })

\* A createProject without the conflict branch (src/dependencytrack.go:29-71).
createProject_NoConflict(server, name, version, classifier, parentUUID) ==
    LET put(status) ==
            << Request("PUT", "/api/v1/project",
                       [name |-> name, version |-> version,
                        parent |-> parentUUID, classifier |-> classifier], status) >>
    IN  { IF r.status \notin {StatusOK, StatusCreated}
          THEN [uuid |-> NilUUID, err |-> "unexpected status code: " \o r.status,
                server |-> r.server, requests |-> put(r.status)]
          ELSE [uuid |-> r.uuid, err |-> Nil, server |-> r.server,
                requests |-> put(r.status)] :
          r \in PutProject(server, name, version, parentUUID) }

\* createProject: outcomes [uuid, err, server, requests].
createProject(server, name, version, classifier, parentUUID) ==
    LET put(status) ==
            << Request("PUT", "/api/v1/project",
                       [name |-> name, version |-> version,
                        parent |-> parentUUID, classifier |-> classifier], status) >>
        After(r) ==
            IF r.status = StatusConflict
            THEN { IF g.err # Nil
                   THEN [uuid |-> NilUUID,
                         err |-> "error retrieving existing project UUID: " \o g.err,
                         server |-> r.server, requests |-> put(r.status) \o g.requests]
                   ELSE [uuid |-> g.uuid, err |-> Nil, server |-> r.server,
                         requests |-> put(r.status) \o g.requests] :
                   g \in getProjectUUID(r.server, name) }
            ELSE IF r.status \notin {StatusOK, StatusCreated}
            THEN { [uuid |-> NilUUID, err |-> "unexpected status code: " \o r.status,
                    server |-> r.server, requests |-> put(r.status)] }
            ELSE { [uuid |-> r.uuid, err |-> Nil, server |-> r.server,
                    requests |-> put(r.status)] }
    IN  UNION { After(r) : r \in PutProject(server, name, version, parentUUID) }

\* json.MarshalIndent and base64.StdEncoding.EncodeToString, as encodings.
Marshal(bom) == [json |-> bom]
Base64(bytes) == [base64 |-> bytes]

\* The answers of the server to PUT /api/v1/bom: [status, server].
PutBom(server, projectUUID, bom) ==
    { [status |-> StatusError, server |-> server],
      [status |-> StatusOK,
       server |-> [server EXCEPT !.boms = @ \cup { [project |-> projectUUID,
                                                    bom |-> bom] }]] }

\* uploadSBOM: outcomes [err, server, requests].
uploadSBOM(server, d, hostname, osVersion, sbomJSON) ==
    LET Push(c) ==
            LET req(status) ==
                    << Request("PUT", "/api/v1/bom",
                               [project |-> c.uuid, autoCreate |-> TRUE,
                                bom |-> Base64(sbomJSON)], status) >>
            IN  { [err |-> IF r.status \notin {StatusOK, StatusCreated}
                           THEN "unexpected status code: " \o r.status ELSE Nil,
                   server |-> r.server, requests |-> c.requests \o req(r.status)] :
                  r \in PutBom(c.server, c.uuid, Base64(sbomJSON)) }
        Child(parent) ==
            IF parent.err # Nil
            THEN { [err |-> "error creating or getting parent project: " \o parent.err,
                    server |-> parent.server, requests |-> parent.requests] }
            ELSE UNION {
                   IF c.err # Nil
                   THEN { [err |-> "error creating or getting project: " \o c.err,
                           server |-> c.server,
                           requests |-> parent.requests \o c.requests] }
                   ELSE Push([c EXCEPT !.requests = parent.requests \o @]) :
                   c \in createProject(parent.server, hostname, osVersion,
                                       "OPERATING_SYSTEM", parent.uuid) }
    IN  UNION { Child(parent) :
                parent \in createProject(server, d, "", "OPERATING_SYSTEM", NilUUID) }

(***************************************************************************)
(* Initial states: the inputs of a run, and nothing computed yet.          *)
(***************************************************************************)
\* Listings of well-formed lines over PkgNames; every listed name gets an
\* outcome of the dependency command, every other name has no dependencies.
Listed(out) == { out.lines[i][1] : i \in { j \in DOMAIN out.lines : Len(out.lines[j]) >= 1 } }

AssemblyInputs ==
    /\ distro = "ubuntu"
    /\ listOut \in { [fail |-> FALSE, lines |-> l] :
                       l \in SeqsUpTo({ Line(n) : n \in PkgNames }, MaxPkgs) }
    /\ \E f \in [Listed(listOut) -> FetchOutcomes] :
         fetchOut = [n \in Names |-> IF n \in Listed(listOut) THEN f[n] ELSE NoDeps]

\* Other distributions, a failing or malformed listing, a package that is
\* itself called RootComponent.
OtherInputs ==
    /\ distro \in {"Ubuntu", "Alpine", "rocky", "arch"}
    /\ listOut \in { [fail |-> TRUE, lines |-> << >>],
                     [fail |-> FALSE,
                      lines |-> << Line("a"), << "b" >>, << >>, Line(RootName),
                                   << "b", Version, "amd64" >> >>],
                     [fail |-> FALSE,
                      lines |-> << Line("2-a"), Line("a"), Line("a") >>] }
    /\ fetchOut \in { [n \in Names |-> IF n \in {"a", RootName}
                                       THEN [fail |-> FALSE, lines |-> l]
                                       ELSE NoDeps] :
                        l \in { << "a", RootName, "2-a" >>, << >> } }

\* A batch of MaxBatch distinct names, more than there are workers; at most
\* MaxFail of the dependency commands fail.
PoolInputs ==
    /\ distro = "ubuntu"
    /\ listOut = [fail |-> FALSE, lines |-> [i \in 1..MaxBatch |-> Line(PoolName(i))]]
    /\ \E failing \in { F \in SUBSET PoolNames : Cardinality(F) <= MaxFail } :
         fetchOut = [n \in Names |->
                       IF n \in failing THEN [fail |-> TRUE, lines |-> << >>]
                       ELSE IF n = PoolName(1) THEN NoDeps
                       ELSE [fail |-> FALSE, lines |-> << PoolName(1) >>]]

(***************************************************************************)
(* The environment of a run: schema file, license sources, arguments,      *)
(* Dependency-Track.                                                       *)
(***************************************************************************)
SchemaFile(enum) == [given |-> TRUE, readable |-> TRUE, parses |-> TRUE, enum |-> enum]
GoodSchema == SchemaFile(<< "MIT", "GPL-2.0", "GPL-2.0+", "BSD-3-Clause", "Apache-2.0" >>)
SchemaFiles ==
    { GoodSchema,
      SchemaFile(<< >>),
      SchemaFile(<< "MIT", "UNKNOWN", "MIT" >>),
      [given |-> FALSE, readable |-> FALSE, parses |-> FALSE, enum |-> << >>],
      [given |-> TRUE, readable |-> FALSE, parses |-> FALSE, enum |-> << >>],
      [given |-> TRUE, readable |-> TRUE, parses |-> FALSE, enum |-> << >>] }

\* Raw license texts, piece by piece.
RawTexts ==
    { << >>,
      << "UNKNOWN" >>,
      << "GPL-2+" >>,
      << "GPL", "-2+" >>,
      << "MIT", " ", "and", " ", "BSD-3-clause" >>,
      << "MIT", " ", "MIT" >>,
      << "GPL-2", ",", " ", "GPL-2.0" >>,
      << "Apache-2", "|", "or", ";", "MIT-1", "&", "GPL-any", "/", "X11" >>,
      << " ", "MIT", "\n" >>,
      << "MIT", "\n", "GPL-2" >>,
      << "\n" >> }

Unreadable == [readable |-> FALSE, lines |-> << >>]
FileOf(lines) == [readable |-> TRUE, lines |-> lines]
NoFiles == << Unreadable, Unreadable, Unreadable >>
LicenseFiles ==
    { NoFiles,
      << FileOf(<< << "Format:", " ", "x" >>,
                   << " ", "License:", " ", "GPL-2+", " " >>,
                   << "License:", " ", "MIT" >> >>), Unreadable, Unreadable >>,
      << FileOf(<< << "Copyright", " ", "x" >> >>), Unreadable,
         FileOf(<< << "License:", "MIT", " ", "MIT" >> >>) >>,
      << Unreadable, FileOf(<< << "License:" >> >>), FileOf(<< << "License:", "MIT" >> >>) >>,
      << FileOf(<< << "Copyright", " ", "x" >>, << "Licenses:", " ", "MIT" >> >>),
         Unreadable, FileOf(<< >>) >> }

CmdFailed == [fail |-> TRUE, out |-> << >>]
CmdOut(text) == [fail |-> FALSE, out |-> text]
LicenseEnv(cmd, files) == [cmd |-> cmd, files |-> files]
LicenseEnvs ==
    { LicenseEnv(CmdOut(t), NoFiles) : t \in RawTexts }
        \cup { LicenseEnv(CmdFailed, f) : f \in LicenseFiles }
        \cup { LicenseEnv(CmdOut(<< >>), f) : f \in LicenseFiles }
DefaultLicenses == [n \in Names |-> LicenseEnv(CmdOut(<< "MIT" >>), NoFiles)]

Serials == { "urn:uuid:1", "urn:uuid:2", "urn:uuid:3" }

Hostname == "host1"
OSVersion == "22.04"
Project(name, version, parent) ==
    [name |-> name, version |-> version, parent |-> parent,
     uuid |-> ServerUUID(name, version)]
Server(projects) == [projects |-> projects, boms |-> {}]
Servers ==
    { Server({}),
      Server({ Project("ubuntu", "", NilUUID) }),
      Server({ Project("ubuntu", "", NilUUID),
               Project(Hostname, OSVersion, ServerUUID("ubuntu", "")) }),
      Server({ Project(Hostname, "20.04", NilUUID),
               Project(Hostname, OSVersion, NilUUID) }) }

NoCall == [fn |-> "none"]
NoFile == [written |-> FALSE]

\* The environment of the runs that vary listing, fetch outcomes and batch.
DefaultEnvironment ==
    /\ spdxSchema = GoodSchema
    /\ licOut = DefaultLicenses
    /\ output = ""
    /\ apiURL = ""
    /\ apiKey = ""
    /\ issued = { "urn:uuid:1" }
    /\ configErr = FALSE
    /\ dtrack = Server({})

\* Runs that differ in schema file, configuration file and distro argument.
StartInputs ==
    /\ distro \in {"ubuntu", ""}
    /\ listOut = [fail |-> FALSE, lines |-> << Line("a") >>]
    /\ fetchOut = [n \in Names |-> NoDeps]
    /\ spdxSchema \in SchemaFiles
    /\ licOut = DefaultLicenses
    /\ output = ""
    /\ apiURL = ""
    /\ apiKey = ""
    /\ issued = {}
    /\ configErr \in BOOLEAN
    /\ dtrack = Server({})

\* Runs that differ in output file, upload arguments and server, over a
\* listing and a dependency command that succeed or fail.
EmitInputs ==
    /\ distro = "ubuntu"
    /\ listOut \in { [fail |-> TRUE, lines |-> << >>],
                     [fail |-> FALSE, lines |-> << Line("a") >>] }
    /\ fetchOut \in { [n \in Names |-> o] :
                        o \in { NoDeps, [fail |-> TRUE, lines |-> << >>] } }
    /\ spdxSchema = GoodSchema
    /\ licOut = DefaultLicenses
    /\ output \in {"", "sbom.json"}
    /\ apiURL \in {"", "https://dt"}
    /\ \/ /\ apiKey = ""
          /\ dtrack = Server({})
       \/ /\ apiURL # ""
          /\ apiKey = "key"
          /\ dtrack \in Servers
    /\ issued = { "urn:uuid:1" }
    /\ configErr = FALSE

\* Runs that differ in the license sources of the packages.
LicenseInputs ==
    /\ distro \in {"ubuntu", "alpine"}
    /\ listOut = [fail |-> FALSE, lines |-> << Line("a"), Line("b") >>]
    /\ fetchOut = [n \in Names |-> NoDeps]
    /\ spdxSchema \in { GoodSchema, SchemaFile(<< "MIT", "UNKNOWN", "MIT" >>) }
    /\ \E ea \in LicenseEnvs :
         licOut = [n \in Names |->
                     IF n = "a" THEN ea
                     ELSE LicenseEnv(CmdOut(<< "GPL-2", " ", "or", " ", "foo" >>), NoFiles)]
    /\ output = ""
    /\ apiURL = ""
    /\ apiKey = ""
    /\ issued = { "urn:uuid:1" }
    /\ configErr = FALSE
    /\ dtrack = Server({})

\* Runs over the supported distro names, other spellings of them, and names
\* outside the closed set.
DistroNames ==
    { "ubuntu", "debian", "alpine", "centos", "fedora", "rhel", "opensuse", "rocky",
      "Ubuntu", "DEBIAN", "Alpine", "RHEL", "openSUSE",
      "arch", "Arch", "suse", "ubuntu ", "dpkg" }

DistroInputs ==
    /\ distro \in DistroNames
    /\ listOut = [fail |-> FALSE, lines |-> << Line("a") >>]
    /\ fetchOut = [n \in Names |-> NoDeps]

\* Direct calls of listPackages, FetchPackageLicense and correctLicenses.
Managers == { "dpkg", "apk", "rpm", "pacman", "DPKG", "" }
LineShapes ==
    { << >>, << "a" >>, << "a", "1.0" >>, << "b", "2.0", "amd64" >>,
      << "c", "3.0", "x", "y" >> }
VocabularyIds ==
    { "MIT", "GPL-2.0", "GPL-2.0+", "GPL-3.0", "BSD-3-Clause", "Apache-2.0", "UNKNOWN" }

ListCalls ==
    /\ \E m \in Managers : call = [fn |-> "listPackages", manager |-> m]
    /\ listOut \in { [fail |-> TRUE, lines |-> << >>] }
                    \cup { [fail |-> FALSE, lines |-> l] :
                             l \in SeqsUpTo(LineShapes, MaxLines) }
    /\ licOut = DefaultLicenses
    /\ spdxLicenses = Range(GoodSchema.enum)

LicenseCalls ==
    /\ \E m \in Managers :
         call = [fn |-> "FetchPackageLicense", manager |-> m, packageName |-> "a"]
    /\ listOut = [fail |-> FALSE, lines |-> << >>]
    /\ \E e \in LicenseEnvs : licOut = [n \in Names |-> e]
    /\ spdxLicenses \in SUBSET VocabularyIds

CorrectCalls ==
    /\ \E t \in RawTexts : call = [fn |-> "correctLicenses", licenses |-> t]
    /\ listOut = [fail |-> FALSE, lines |-> << >>]
    /\ licOut = DefaultLicenses
    /\ spdxLicenses \in SUBSET VocabularyIds

CallInputs ==
    /\ ListCalls \/ LicenseCalls \/ CorrectCalls
    /\ distro = "ubuntu"
    /\ fetchOut = [n \in Names |-> NoDeps]
    /\ spdxSchema = GoodSchema
    /\ output = ""
    /\ apiURL = ""
    /\ apiKey = ""
    /\ issued = {}
    /\ configErr = FALSE
    /\ dtrack = Server({})

RunInputs ==
    \/ (AssemblyInputs \/ OtherInputs \/ PoolInputs \/ DistroInputs) /\ DefaultEnvironment
    \/ StartInputs
    \/ EmitInputs
    \/ LicenseInputs

Init ==
    /\ \/ /\ RunInputs
          /\ call = NoCall
          /\ pc = "main"
          /\ spdxLicenses = {}
       \/ /\ CallInputs
          /\ pc = "call"
    /\ packageManager = Nil
    /\ packages = << >>
    /\ components = << >>
    /\ componentMap = EmptyMap
    /\ packageNames = << >>
    /\ jobs = << >>
    /\ jobsClosed = FALSE
    /\ sent = 0
    /\ results = << >>
    /\ idle = 0
    /\ fetching = EmptyBag
    /\ sending = EmptyBag
    /\ exited = 0
    /\ collected = 0
    /\ dependencyMap = EmptyMap
    /\ gdRet = [state |-> "running", map |-> NilMap, err |-> Nil]
    /\ genRet = [state |-> "running", bom |-> NilBOM, err |-> Nil]
    /\ stdout = << >>
    /\ outFile = NoFile
    /\ subprocesses = EmptyBag
    /\ requests = << >>
    /\ upRet = [state |-> "running", err |-> Nil]
    /\ callRet = NoCall

inputVars == << distro, listOut, fetchOut, spdxSchema, licOut, output, apiURL, apiKey,
               issued, configErr, call >>
ioVars == << stdout, subprocesses >>
emitVars == << spdxLicenses, outFile, dtrack, requests, upRet, callRet >>
poolVars == << jobs, jobsClosed, sent, results, idle, fetching, sending, exited,
               collected, dependencyMap, gdRet >>
sbomVars == << packageManager, packages, components, componentMap, packageNames >>

\* Channels with one slot per worker.
ChanCap_PerWorker == numWorkers

\* Capacity of the jobs and of the results channel: len(packageNames).
ChanCap == Len(packageNames)

\* A pool that starts one goroutine per name of the batch.
SpawnedWorkers_PerName(names) == Len(names)

\* Workers started by `for range numWorkers { go worker() }` for a batch.
SpawnedWorkers(names) == numWorkers

\* A collect loop that takes one result per worker.
CollectCount_PerWorker(names) == IF Len(names) < numWorkers THEN Len(names) ELSE numWorkers

\* Iterations of the collect loop `for range packageNames`.
CollectCount(names) == Len(names)

\* bom.Metadata.Component, the operating-system component of the document.
MetadataComponent(d) == [Name |-> d, Version |-> Version, BOMRef |-> DocumentRef]

(***************************************************************************)
(* main (src/main.go:83-188).                                              *)
(***************************************************************************)
Doc(sbomJSON) == [document |-> TRUE, json |-> sbomJSON]

\* Configuration, schema loading and the --distro check (main.go:90-151).
MainStart ==
    /\ pc = "main"
    /\ LET config == IF configErr THEN << Text("Error reading config file") >> ELSE << >>
           loaded == loadSPDXSchema(spdxSchema)
       IN  IF ~spdxSchema.given \/ loaded.err # Nil
           THEN /\ pc' = "fatal"
                /\ stdout' = stdout \o config
                /\ UNCHANGED spdxLicenses
           ELSE /\ spdxLicenses' = loaded.licenses
                /\ IF distro = ""
                   THEN /\ stdout' = stdout \o config \o Texts(loaded.printed)
                               \o << Text("Please specify a distribution using the --distro flag.") >>
                        /\ pc' = "exit"
                   ELSE /\ stdout' = stdout \o config \o Texts(loaded.printed)
                        /\ pc' = "start"
    /\ UNCHANGED << inputVars, sbomVars, poolVars, genRet, subprocesses, outFile,
                    dtrack, requests, upRet, callRet >>

\* A main that marshals and writes whatever generateSBOM returned.
Emit_IgnoreError ==
    /\ pc = "done"
    /\ IF output = ""
       THEN /\ stdout' = Append(stdout, Doc(Marshal(genRet.bom)))
            /\ UNCHANGED outFile
       ELSE /\ outFile' = [written |-> TRUE, bytes |-> Marshal(genRet.bom)]
            /\ UNCHANGED stdout
    /\ pc' = "upload"
    /\ UNCHANGED << inputVars, sbomVars, poolVars, genRet, spdxLicenses, subprocesses,
                    dtrack, requests, upRet, callRet >>

\* After generateSBOM has returned: log.Fatalf on an error, else marshal and
\* write the document to stdout or to the output file (main.go:155-171).
Emit ==
    /\ pc = "done"
    /\ IF genRet.err # Nil
       THEN /\ pc' = "fatal"
            /\ UNCHANGED << stdout, outFile >>
       ELSE IF output = ""
       THEN /\ stdout' = Append(stdout, Doc(Marshal(genRet.bom)))
            /\ pc' = "upload"
            /\ UNCHANGED outFile
       ELSE \E writeOK \in BOOLEAN :
              IF writeOK
              THEN /\ outFile' = [written |-> TRUE, bytes |-> Marshal(genRet.bom)]
                   /\ pc' = "upload"
                   /\ UNCHANGED stdout
              ELSE /\ pc' = "fatal"
                   /\ UNCHANGED << stdout, outFile >>
    /\ UNCHANGED << inputVars, sbomVars, poolVars, genRet, spdxLicenses, subprocesses,
                    dtrack, requests, upRet, callRet >>

\* The upload branch of main (main.go:173-187) with uploadSBOM.
Upload ==
    /\ pc = "upload"
    /\ IF apiURL # "" /\ apiKey # ""
       THEN \E o \in uploadSBOM(dtrack, distro, Hostname, OSVersion, Marshal(genRet.bom)) :
              /\ dtrack' = o.server
              /\ requests' = requests \o o.requests
              /\ upRet' = [state |-> "returned", err |-> o.err]
              /\ pc' = IF o.err # Nil THEN "fatal" ELSE "exit"
              /\ UNCHANGED stdout
       ELSE /\ stdout' = IF apiURL # "" \/ apiKey # ""
                         THEN Append(stdout, Text("Both api-url and api-key must be provided to upload the SBOM."))
                         ELSE stdout
            /\ pc' = "exit"
            /\ UNCHANGED << dtrack, requests, upRet >>
    /\ UNCHANGED << inputVars, sbomVars, poolVars, genRet, spdxLicenses, subprocesses,
                    outFile, callRet >>

(***************************************************************************)
(* Direct calls of one function.                                           *)
(***************************************************************************)
CallListPackages ==
    /\ pc = "call"
    /\ call.fn = "listPackages"
    /\ callRet' = [fn |-> call.fn, value |-> listPackages(call.manager, listOut)]
    /\ subprocesses' = subprocesses (+) listPackagesCmds(call.manager)
    /\ pc' = "called"
    /\ UNCHANGED << inputVars, sbomVars, poolVars, genRet, spdxLicenses, stdout,
                    outFile, dtrack, requests, upRet >>

CallFetchPackageLicense ==
    /\ pc = "call"
    /\ call.fn = "FetchPackageLicense"
    /\ LET r == FetchPackageLicense(call.manager, licOut[call.packageName], spdxLicenses)
       IN  /\ callRet' = [fn |-> call.fn, value |-> r.valid]
           /\ stdout' = stdout \o Texts(r.printed)
    /\ subprocesses' = subprocesses
                          (+) FetchPackageLicenseCmds(call.manager, call.packageName)
    /\ pc' = "called"
    /\ UNCHANGED << inputVars, sbomVars, poolVars, genRet, spdxLicenses, outFile,
                    dtrack, requests, upRet >>

CallCorrectLicenses ==
    /\ pc = "call"
    /\ call.fn = "correctLicenses"
    /\ LET r == correctLicenses(call.licenses, spdxLicenses)
       IN  /\ callRet' = [fn |-> call.fn, value |-> r.valid]
           /\ stdout' = stdout \o Texts(r.printed)
    /\ pc' = "called"
    /\ UNCHANGED << inputVars, sbomVars, poolVars, genRet, spdxLicenses, subprocesses,
                    outFile, dtrack, requests, upRet >>

(***************************************************************************)
(* generateSBOM up to the producer loop of GetDependencies                 *)
(* (main.go:220-357, dependencies.go:12-36).                               *)
(***************************************************************************)
GenerateStart ==
    /\ pc = "start"
    /\ LET pm == PackageManagerOf(distro)
           lp == listPackages(pm, listOut)
           built == BuildComponents(lp.packages, 1, << rootComponent >>, EmptyMap)
       IN  IF pm = Nil
           THEN /\ genRet' = [state |-> "returned", bom |-> NilBOM,
                              err |-> "unsupported distribution: " \o distro]
                /\ pc' = "done"
                /\ UNCHANGED << sbomVars, idle, ioVars >>
           ELSE IF lp.err # Nil
           THEN /\ genRet' = [state |-> "returned", bom |-> NilBOM,
                              err |-> "error listing packages: " \o lp.err]
                /\ pc' = "done"
                /\ packageManager' = pm
                /\ subprocesses' = subprocesses (+) listPackagesCmds(pm)
                /\ UNCHANGED << packages, components, componentMap, packageNames,
                                idle, stdout >>
           ELSE /\ packageManager' = pm
                /\ packages' = lp.packages
                /\ components' = AttachLicenses(built.components, pm, licOut,
                                                 spdxLicenses)
                /\ subprocesses' = subprocesses (+) listPackagesCmds(pm)
                                        (+) LicenseCmds(lp.packages, pm)
                /\ stdout' = stdout \o Texts(LicensePrints(lp.packages, pm, licOut,
                                                           spdxLicenses))
                /\ componentMap' = built.componentMap
                /\ packageNames' = filteredPackageNames(built.components)
                /\ idle' = SpawnedWorkers(filteredPackageNames(built.components))
                /\ pc' = "send"
                /\ UNCHANGED genRet
    /\ UNCHANGED << inputVars, emitVars, jobs, jobsClosed, sent, results, fetching,
                    sending, exited, collected, dependencyMap, gdRet >>

(***************************************************************************)
(* GetDependencies, main goroutine (dependencies.go:38-54).                *)
(***************************************************************************)
\* jobs <- packageName
SendJob ==
    /\ pc = "send"
    /\ sent < Len(packageNames)
    /\ Len(jobs) < ChanCap
    /\ jobs' = Append(jobs, packageNames[sent + 1])
    /\ sent' = sent + 1
    /\ UNCHANGED << inputVars, ioVars, emitVars, sbomVars, pc, jobsClosed, results, idle, fetching,
                    sending, exited, collected, dependencyMap, gdRet, genRet >>

\* A producer that never closes the jobs channel.
CloseJobs_NoClose ==
    /\ pc = "send"
    /\ sent = Len(packageNames)
    /\ pc' = "collect"
    /\ UNCHANGED << inputVars, ioVars, emitVars, sbomVars, jobs, jobsClosed, sent, results,
                    idle, fetching, sending, exited, collected, dependencyMap, gdRet,
                    genRet >>

\* close(jobs); dependencyMap := make(...)
CloseJobs ==
    /\ pc = "send"
    /\ sent = Len(packageNames)
    /\ jobsClosed' = TRUE
    /\ pc' = "collect"
    /\ UNCHANGED << inputVars, ioVars, emitVars, sbomVars, jobs, sent, results, idle, fetching,
                    sending, exited, collected, dependencyMap, gdRet, genRet >>

\* An error return that hands back the partial map with the error.
ErrorReturn_Partial(res, depMap) == [state |-> "returned", map |-> depMap, err |-> res.err]

\* What GetDependencies returns when the received result holds an error.
ErrorReturn(res, depMap) == [state |-> "returned", map |-> NilMap, err |-> res.err]

\* One iteration of `for range packageNames { res := <-results ... }`.
CollectResult ==
    /\ pc = "collect"
    /\ collected < CollectCount(packageNames)
    /\ results # << >>
    /\ LET res == Head(results)
       IN  /\ results' = Tail(results)
           /\ IF res.err # Nil
              THEN /\ gdRet' = ErrorReturn(res, dependencyMap)
                   /\ pc' = "failed"
                   /\ UNCHANGED << collected, dependencyMap >>
              ELSE /\ dependencyMap' = MapPut(dependencyMap, res.packageName,
                                              res.dependencies)
                   /\ collected' = collected + 1
                   /\ UNCHANGED << gdRet, pc >>
    /\ UNCHANGED << inputVars, ioVars, emitVars, sbomVars, jobs, jobsClosed, sent, idle, fetching,
                    sending, exited, genRet >>

\* log.Fatalf("Error getting dependencies: ...") at main.go:359 ends the process.
FatalExit ==
    /\ pc = "failed"
    /\ pc' = "fatal"
    /\ UNCHANGED << inputVars, ioVars, emitVars, sbomVars, poolVars, genRet >>

\* A serial number that is the same for every document.
uuidNew_Fixed(used) == { "urn:uuid:1" }

\* uuid.New().URN(): an identifier no earlier document carries.
uuidNew(used) == Serials \ used

\* return dependencyMap, nil; then the edge loop and return bom, nil
\* (dependencies.go:54, main.go:363-392).  The serial number, drawn at
\* main.go:224, is held in the local bom until this return.
ReturnAndAssemble ==
    /\ pc = "collect"
    /\ collected = CollectCount(packageNames)
    /\ gdRet' = [state |-> "returned", map |-> dependencyMap, err |-> Nil]
    /\ \E deps \in bomDependencies(components, dependencyMap, componentMap),
          urn \in uuidNew(issued) :
         genRet' = [state |-> "returned",
                    bom |-> [SerialNumber |-> urn,
                            Metadata |-> [Component |-> MetadataComponent(distro)],
                            Components |-> components, Dependencies |-> deps],
                    err |-> Nil]
    /\ pc' = "done"
    /\ UNCHANGED << inputVars, ioVars, emitVars, sbomVars, jobs, jobsClosed, sent, results, idle,
                    fetching, sending, exited, collected, dependencyMap >>

(***************************************************************************)
(* The worker closure (dependencies.go:26-31).                             *)
(***************************************************************************)
ProcessAlive == pc \notin {"main", "start", "fatal", "exit", "call", "called"}

\* A receive that leaves the name on the channel for the next worker.
WorkerReceive_NoDequeue ==
    /\ ProcessAlive
    /\ idle > 0
    /\ jobs # << >>
    /\ idle' = idle - 1
    /\ fetching' = fetching (+) SetToBag({ Head(jobs) })
    /\ stdout' = IF packageManager = "dpkg"
                 THEN Append(stdout, Text("Fetching dependencies for " \o Head(jobs)))
                 ELSE stdout
    /\ subprocesses' = subprocesses (+) fetchDependenciesCmds(packageManager, Head(jobs))
    /\ UNCHANGED << inputVars, emitVars, sbomVars, pc, jobs, jobsClosed, sent, results,
                    sending, exited, collected, dependencyMap, gdRet, genRet >>

\* `for packageName := range jobs` takes the next name.
WorkerReceive ==
    /\ ProcessAlive
    /\ idle > 0
    /\ jobs # << >>
    /\ jobs' = Tail(jobs)
    /\ idle' = idle - 1
    /\ fetching' = fetching (+) SetToBag({ Head(jobs) })
    /\ stdout' = IF packageManager = "dpkg"
                 THEN Append(stdout, Text("Fetching dependencies for " \o Head(jobs)))
                 ELSE stdout
    /\ subprocesses' = subprocesses (+) fetchDependenciesCmds(packageManager, Head(jobs))
    /\ UNCHANGED << inputVars, emitVars, sbomVars, pc, jobsClosed, sent, results, sending,
                    exited, collected, dependencyMap, gdRet, genRet >>

\* A result that does not carry the name of its package.
result_Unnamed(packageName, dependencies, err) ==
    [packageName |-> "", dependencies |-> dependencies, err |-> err]

\* result{packageName, dependencies, err} (dependencies.go:15-19, 29).
result(packageName, dependencies, err) ==
    [packageName |-> packageName, dependencies |-> dependencies, err |-> err]

\* fetchDependencies returns; the worker holds result{packageName, dependencies, err}.
WorkerFetch ==
    /\ ProcessAlive
    /\ \E packageName \in BagToSet(fetching) :
         LET r == fetchDependencies(packageManager, packageName, fetchOut[packageName])
             res == result(packageName, r.dependencies, r.err)
         IN  /\ fetching' = fetching (-) SetToBag({ packageName })
             /\ sending' = sending (+) SetToBag({ res })
    /\ UNCHANGED << inputVars, ioVars, emitVars, sbomVars, pc, jobs, jobsClosed, sent, results, idle,
                    exited, collected, dependencyMap, gdRet, genRet >>

\* A worker that stores its result into the map itself.
WorkerSend_WritesMap ==
    /\ ProcessAlive
    /\ \E res \in BagToSet(sending) :
         /\ sending' = sending (-) SetToBag({ res })
         /\ dependencyMap' = MapPut(dependencyMap, res.packageName, res.dependencies)
    /\ idle' = idle + 1
    /\ UNCHANGED << inputVars, ioVars, emitVars, sbomVars, pc, jobs, jobsClosed, sent,
                    results, fetching, exited, collected, gdRet, genRet >>

\* results <- result{...}
WorkerSend ==
    /\ ProcessAlive
    /\ Len(results) < ChanCap
    /\ \E res \in BagToSet(sending) :
         /\ sending' = sending (-) SetToBag({ res })
         /\ results' = Append(results, res)
    /\ idle' = idle + 1
    /\ UNCHANGED << inputVars, ioVars, emitVars, sbomVars, pc, jobs, jobsClosed, sent, fetching,
                    exited, collected, dependencyMap, gdRet, genRet >>

\* `range jobs` ends: the channel is closed and drained.
WorkerExit ==
    /\ ProcessAlive
    /\ idle > 0
    /\ jobs = << >>
    /\ jobsClosed
    /\ idle' = idle - 1
    /\ exited' = exited + 1
    /\ UNCHANGED << inputVars, ioVars, emitVars, sbomVars, pc, jobs, jobsClosed, sent, results,
                    fetching, sending, collected, dependencyMap, gdRet, genRet >>

Next ==
    \/ MainStart
    \/ Emit
    \/ Upload
    \/ GenerateStart
    \/ SendJob
    \/ CloseJobs
    \/ CollectResult
    \/ FatalExit
    \/ ReturnAndAssemble
    \/ WorkerReceive
    \/ WorkerFetch
    \/ WorkerSend
    \/ WorkerExit
    \/ CallListPackages
    \/ CallFetchPackageLicense
    \/ CallCorrectLicenses

Spec == Init /\ [][Next]_vars

\* The goroutines of GetDependencies under the Go scheduler: a goroutine
\* that can take a step eventually takes one, and every fetch terminates
\* (WorkerFetch).  The caller's steps after the return are not forced.
GetDependenciesFairness ==
    /\ WF_vars(SendJob)
    /\ WF_vars(CloseJobs)
    /\ WF_vars(CollectResult)
    /\ WF_vars(ReturnAndAssemble)
    /\ WF_vars(WorkerReceive)
    /\ WF_vars(WorkerFetch)
    /\ WF_vars(WorkerSend)
    /\ WF_vars(WorkerExit)

FairSpec == Init /\ [][Next]_vars /\ GetDependenciesFairness

(***************************************************************************)
(* Properties of GetDependencies.                                          *)
(***************************************************************************)
Distinct(seq) == \A i, j \in DOMAIN seq : i # j => seq[i] # seq[j]

AllFetchesSucceed == \A n \in Range(packageNames) : ~fetchOut[n].fail
SomeFetchFails == \E n \in Range(packageNames) : fetchOut[n].fail

GdReturned == gdRet.state = "returned"

\* C1: for a batch of K distinct names, K greater than the worker count, with
\* every fetch succeeding, whenever GetDependencies has returned it has
\* returned no error and a map whose key set is exactly the set of the K
\* input names; a name whose dependency list is empty is a key too.
C1_TotalOverBatch ==
    (/\ GdReturned
     /\ Len(packageNames) > numWorkers
     /\ Distinct(packageNames)
     /\ AllFetchesSucceed)
    => /\ gdRet.err = Nil
       /\ gdRet.map # NilMap
       /\ DOMAIN gdRet.map = Range(packageNames)
       /\ Cardinality(DOMAIN gdRet.map) = Len(packageNames)

C1_Witness ==
    /\ GdReturned
    /\ Len(packageNames) > numWorkers
    /\ Distinct(packageNames)
    /\ AllFetchesSucceed
    /\ gdRet.map # NilMap
    /\ \E n \in DOMAIN gdRet.map : gdRet.map[n] = << >>
    /\ \E n \in DOMAIN gdRet.map : gdRet.map[n] # << >>

\* The collector takes a result that holds an error off the results channel.
ReceivesError ==
    /\ results # << >>
    /\ results' = Tail(results)
    /\ Head(results).err # Nil

\* C2: when at least one fetch of the batch fails, a returned GetDependencies
\* has returned an error and no map; and the step in which the collector
\* receives an error result is the one that returns: nothing was returned
\* before it, and it returns that result's error with a nil map, whatever the
\* collector had put into dependencyMap until then.
C2_FailFast ==
    /\ [](GdReturned /\ SomeFetchFails => gdRet.err # Nil /\ gdRet.map = NilMap)
    /\ [][ReceivesError =>
            /\ gdRet.state = "running"
            /\ gdRet' = [state |-> "returned", map |-> NilMap, err |-> Head(results).err]
         ]_vars

\* An error came back after two results had been collected, and another
\* failing package's error was not the one returned.
C2_Witness ==
    /\ GdReturned
    /\ gdRet.err # Nil
    /\ gdRet.map = NilMap
    /\ collected >= 2
    /\ DOMAIN dependencyMap # {}
    /\ \E n \in Range(packageNames) :
          /\ fetchOut[n].fail
          /\ gdRet.err # fetchDependencies(packageManager, n, fetchOut[n]).err

\* C3: the number of fetchDependencies calls in progress at the same time
\* never exceeds the worker count, whatever the length of the batch.
C3_BoundedFetches == BagCardinality(fetching) <= numWorkers

\* All four workers are inside fetchDependencies while a further name waits.
C3_Witness ==
    /\ BagCardinality(fetching) = numWorkers
    /\ jobs # << >>
    /\ Len(packageNames) > numWorkers

(***************************************************************************)
(* Properties of the document returned by generateSBOM.                    *)
(***************************************************************************)
HasDocument == genRet.state = "returned" /\ genRet.bom # NilBOM

DocComponents == genRet.bom.Components
DocDependencies == genRet.bom.Dependencies
ComponentRefs == { DocComponents[i].BOMRef : i \in DOMAIN DocComponents }

\* Positions of the package components in the component list (the root is 1).
PackagePositions == 2..Len(DocComponents)

\* The edges of the dependency list whose Ref is r.
EdgesOf(r) == { e \in DOMAIN DocDependencies : DocDependencies[e].Ref = r }

\* The raw dependency names the fetcher returned for a component, and the
\* references the ComponentIndex resolves them to.
RawDependencies(comp) == Range(MapGetSlice(gdRet.map, comp.Name))
Resolved(comp) ==
    { componentMap[d] : d \in RawDependencies(comp) \cap DOMAIN componentMap }

C5_RootEdgeListsTheOthers ==
    HasDocument =>
        LET rootDeps == DocDependencies[1].Dependencies
        IN  /\ Distinct(rootDeps)
            /\ Range(rootDeps) = { DocComponents[i].BOMRef : i \in PackagePositions }

\* C6: the component list has N + 1 entries for N listed packages: the
\* synthetic root, then one Component per listed package in listing order,
\* also when the listing repeats a name.
C6_ComponentPerPackage ==
    HasDocument =>
        /\ Len(DocComponents) = Len(packages) + 1
        /\ DocComponents[1].Name = RootName
        /\ DocComponents[1].BOMRef = RootRef
        /\ \A i \in 1..Len(packages) :
             /\ DocComponents[i + 1].Name = packages[i].Name
             /\ DocComponents[i + 1].Version = packages[i].Version

RepeatsAName == \E i, j \in DOMAIN packages : i # j /\ packages[i].Name = packages[j].Name

C6_Witness ==
    /\ HasDocument
    /\ Len(packages) >= 2
    /\ RepeatsAName

\* C7: the BOMRef of the package at 0-based listing position i is
\* "(i+1)-name", and no two Components of a document, the root included,
\* share a BOMRef, also when the listing repeats a name.
C7_OrdinalRefsUnique ==
    HasDocument =>
        /\ \A k \in 1..Len(packages) :
             DocComponents[k + 1].BOMRef = ToString(k) \o "-" \o packages[k].Name
        /\ \A i, j \in DOMAIN DocComponents :
             i # j => DocComponents[i].BOMRef # DocComponents[j].BOMRef

\* A listing that repeats a name and holds a name that looks like a reference.
C7_Witness ==
    /\ HasDocument
    /\ RepeatsAName
    /\ \E i, j \in DOMAIN packages :
         packages[i].Name = ToString(j) \o "-" \o packages[j].Name

\* C8: with N listed packages the dependency list has between 1 and 1 + N
\* edges; its first edge is the root edge (present also when N = 0); and a
\* package component has one edge of its own when its set of resolved targets
\* is non-empty and none otherwise.
C8_EdgeCount ==
    HasDocument =>
        /\ Len(DocDependencies) >= 1
        /\ Len(DocDependencies) <= 1 + Len(packages)
        /\ DocDependencies[1].Ref = DocumentRef
        /\ \A i \in PackagePositions :
             Cardinality(EdgesOf(DocComponents[i].BOMRef))
                = IF Resolved(DocComponents[i]) # {} THEN 1 ELSE 0

\* Two packages, one with an edge of its own and one without.
C8_Witness ==
    /\ HasDocument
    /\ Len(packages) = 2
    /\ Len(DocDependencies) = 2
    /\ \E i \in PackagePositions : Resolved(DocComponents[i]) = {}

\* C9: the targets of a package's edge are exactly the references the
\* ComponentIndex maps its raw dependency names to, each once; a raw name
\* that is not in the ComponentIndex adds no target, and with every command
\* succeeding no error is returned.
C9_TargetsAreResolvedNames ==
    /\ HasDocument =>
         \A i \in PackagePositions :
            \A e \in EdgesOf(DocComponents[i].BOMRef) :
               /\ Range(DocDependencies[e].Dependencies) = Resolved(DocComponents[i])
               /\ Distinct(DocDependencies[e].Dependencies)
    /\ (genRet.state = "returned" /\ GdReturned /\ AllFetchesSucceed)
         => genRet.err = Nil /\ gdRet.err = Nil

\* A package whose output names a listed package twice, and one whose output
\* names an unlisted one, both with an edge.
C9_Witness ==
    /\ HasDocument
    /\ \E i \in PackagePositions :
         /\ RawDependencies(DocComponents[i]) \ DOMAIN componentMap # {}
         /\ EdgesOf(DocComponents[i].BOMRef) # {}
    /\ \E i \in PackagePositions :
         /\ ~Distinct(MapGetSlice(gdRet.map, DocComponents[i].Name))
         /\ EdgesOf(DocComponents[i].BOMRef) # {}

\* C10 as claimed: distro "ubuntu", packages A and B, A's raw dependencies
\* name B and B has none: 3 Components and exactly 2 edges, root -> {A, B}
\* and A -> {B}.
C10_ScenarioAB ==
    (/\ HasDocument
     /\ distro = "ubuntu"
     /\ Len(packages) = 2
     /\ packages[1].Name = "a"
     /\ packages[2].Name = "b"
     /\ gdRet.map = [n \in {"a", "b"} |-> IF n = "a" THEN << "b" >> ELSE << >>])
    => /\ Len(DocComponents) = 3
       /\ Len(DocDependencies) = 2
       /\ Len(DocDependencies[1].Dependencies) = 2
       /\ Range(DocDependencies[1].Dependencies) = { "1-a", "2-b" }
       /\ DocDependencies[2] = [Ref |-> "1-a", Dependencies |-> << "2-b" >>]

(***************************************************************************)
(* Properties of the run: failures, sinks, commands.                       *)
(***************************************************************************)
DocumentsOnStdout == { i \in DOMAIN stdout : stdout[i].document }
PushRequests == { i \in DOMAIN requests : requests[i].path = "/api/v1/bom" }

\* C11: when the package listing fails, or the dependency command fails for
\* a package of the batch, no document comes out of the run: generateSBOM
\* has returned no BOM, no document is on stdout, the output file is
\* unwritten, no document was pushed to Dependency-Track or is held by it,
\* and once the listing has been attempted the run reaches neither the
\* upload nor a normal exit.
C11_NoDocumentOnFailure ==
    (listOut.fail \/ SomeFetchFails) =>
        /\ genRet.bom = NilBOM
        /\ DocumentsOnStdout = {}
        /\ outFile = NoFile
        /\ PushRequests = {}
        /\ dtrack.boms = {}
        /\ packageManager # Nil => pc \notin {"upload", "exit"}

\* The run was halted by a failing fetch after dependencyMap had entries and
\* stdout had lines; the document would have gone to stdout.
C11_Witness ==
    /\ pc = "fatal"
    /\ SomeFetchFails
    /\ gdRet.err # Nil
    /\ DOMAIN dependencyMap # {}
    /\ output = ""
    /\ stdout # << >>

\* The spellings of the eight supported distro names among the names of
\* the model.
SupportedSpellings ==
    { "ubuntu", "debian", "alpine", "centos", "fedora", "rhel", "opensuse", "rocky",
      "Ubuntu", "DEBIAN", "Alpine", "RHEL", "openSUSE" }

CalledListPackages == pc = "called" /\ call.fn = "listPackages"

\* C12: a run whose distro name is not one of the eight names, upper or
\* lower case, launches no command at any time, and its generateSBOM, once
\* returned, has returned no BOM and the unsupported-distribution error; a
\* name that is one of the eight in any case never gets that error; and
\* listPackages called with a manager other than dpkg, apk or rpm returns
\* the unsupported-manager error and no packages, with no command launched.
C12_ClosedSetBeforeSubprocess ==
    /\ (call = NoCall /\ distro \notin SupportedSpellings) =>
          /\ subprocesses = EmptyBag
          /\ genRet.state = "returned" =>
                /\ genRet.bom = NilBOM
                /\ genRet.err = "unsupported distribution: " \o distro
    /\ (call = NoCall /\ distro \in SupportedSpellings /\ genRet.state = "returned") =>
          genRet.err # "unsupported distribution: " \o distro
    /\ (CalledListPackages /\ call.manager \notin {"dpkg", "apk", "rpm"}) =>
          /\ callRet.value.err = "unsupported package manager: " \o call.manager
          /\ callRet.value.packages = << >>
          /\ subprocesses = EmptyBag

\* generateSBOM has returned for a name that differs from a supported one
\* by a trailing blank.
C12_Witness ==
    /\ distro = "ubuntu "
    /\ genRet.state = "returned"
    /\ genRet.err # Nil
    /\ pc = "fatal"

(***************************************************************************)
(* Properties of listPackages.                                             *)
(***************************************************************************)
\* The lines with at least two fields, in order.
WellFormedLines(lines) == SelectSeq(lines, LAMBDA l : Len(l) >= 2)

\* C13 as claimed: for a supported manager whose command succeeds,
\* listPackages returns no error whatever the lines hold, skips every line
\* with fewer than two fields, and returns for every other line, in output
\* order, one Package of the line's first field and second field.
C13_PackagePerLine ==
    (CalledListPackages /\ call.manager \in {"dpkg", "apk", "rpm"} /\ ~listOut.fail) =>
        LET kept == WellFormedLines(listOut.lines)
        IN  /\ callRet.value.err = Nil
            /\ callRet.value.packages =
                  [i \in DOMAIN kept |-> [Name |-> kept[i][1], Version |-> kept[i][2]]]

(***************************************************************************)
(* Properties of license resolution.                                       *)
(***************************************************************************)
CalledFetchPackageLicense == pc = "called" /\ call.fn = "FetchPackageLicense"

\* The license sources of the package of the call.
CallEnv == licOut[call.packageName]

\* The package-manager query yields nothing: no command for the manager, a
\* failing command, or no output.
QueryYieldsNothing ==
    \/ call.manager \notin {"dpkg", "apk", "rpm"}
    \/ CallEnv.cmd.fail
    \/ CallEnv.cmd.out = << >>

\* No readable license file holds a line that starts with "License:".
FallbackYieldsNothing ==
    \A f \in DOMAIN CallEnv.files :
        CallEnv.files[f].readable =>
            \A l \in DOMAIN CallEnv.files[f].lines :
                LET line == TrimSpace(CallEnv.files[f].lines[l])
                IN  line = << >> \/ Head(line) # "License:"

\* The raw string of the call, as a Go string.
CallRaw == Str(RawLicense(call.manager, CallEnv))

\* C14 as claimed: FetchPackageLicense returns a list for every manager and
\* package, and the list is empty when query and fallback both yield
\* nothing, when the raw string is empty, and when it is exactly "UNKNOWN".
C14_EmptyWhenNothingKnown ==
    CalledFetchPackageLicense =>
        /\ DOMAIN callRet.value = 1..Len(callRet.value)
        /\ (QueryYieldsNothing /\ FallbackYieldsNothing) => callRet.value = << >>
        /\ CallRaw = "" => callRet.value = << >>
        /\ CallRaw = "UNKNOWN" => callRet.value = << >>

\* C14 amended: FetchPackageLicense returns a list for every manager and
\* package; the list is empty when the raw string is empty; when query and
\* fallback both yield nothing the raw string is "UNKNOWN", and for that raw
\* string the list is empty if "UNKNOWN" is no vocabulary token and is the
\* one token "UNKNOWN" if it is.
C14_EmptyUnlessUnknownIsAToken ==
    CalledFetchPackageLicense =>
        /\ DOMAIN callRet.value = 1..Len(callRet.value)
        /\ CallRaw = "" => callRet.value = << >>
        /\ (QueryYieldsNothing /\ FallbackYieldsNothing) => CallRaw = "UNKNOWN"
        /\ CallRaw = "UNKNOWN" =>
              callRet.value = IF "UNKNOWN" \in spdxLicenses
                              THEN << "UNKNOWN" >> ELSE << >>

\* A manager without a license command, a readable file without a License:
\* line, a non-empty vocabulary without "UNKNOWN": the empty list came back.
C14_Witness ==
    /\ CalledFetchPackageLicense
    /\ call.manager = "pacman"
    /\ FallbackYieldsNothing
    /\ \E f \in DOMAIN CallEnv.files : CallEnv.files[f].readable
    /\ "MIT" \in spdxLicenses
    /\ "UNKNOWN" \notin spdxLicenses
    /\ callRet.value = << >>

CalledCorrectLicenses == pc = "called" /\ call.fn = "correctLicenses"

\* The raw string handed to correctLicenses, as a Go string.
RawString == Str(call.licenses)

\* C15 as claimed: "GPL-2+" yields {"GPL-2.0+"} when GPL-2.0+ is in the
\* vocabulary; "UNKNOWN" yields the empty set; "MIT and BSD-3-clause" yields
\* {"MIT", "BSD-3-Clause"} (both being vocabulary tokens).
C15_NormalizationExamples ==
    CalledCorrectLicenses =>
        /\ (RawString = "GPL-2+" /\ "GPL-2.0+" \in spdxLicenses)
              => Range(callRet.value) = { "GPL-2.0+" }
        /\ RawString = "UNKNOWN" => Range(callRet.value) = {}
        /\ (RawString = "MIT and BSD-3-clause" /\ {"MIT", "BSD-3-Clause"} \subseteq spdxLicenses)
              => Range(callRet.value) = { "MIT", "BSD-3-Clause" }

\* C15 amended: "GPL-2+" yields {"GPL-2.0+"} when GPL-2.0+ is in the
\* vocabulary; "UNKNOWN" yields the empty set when UNKNOWN is not in the
\* vocabulary and {"UNKNOWN"} when it is; "MIT and BSD-3-clause" yields
\* {"MIT", "BSD-3-Clause"} when both are in the vocabulary.  The raw string
\* is split on comma, pipe, slash, ampersand, space and semicolon, "and" and
\* "or" are dropped, and a token is corrected before it is looked up: of
\* "Apache-2|or;MIT-1&GPL-any/X11" and of "GPL-2, GPL-2.0" exactly the
\* corrected tokens that are in the vocabulary come back.
C15_NormalizationByVocabulary ==
    CalledCorrectLicenses =>
        /\ (RawString = "GPL-2+" /\ "GPL-2.0+" \in spdxLicenses)
              => Range(callRet.value) = { "GPL-2.0+" }
        /\ RawString = "UNKNOWN"
              => Range(callRet.value) = { "UNKNOWN" } \cap spdxLicenses
        /\ (RawString = "MIT and BSD-3-clause" /\ {"MIT", "BSD-3-Clause"} \subseteq spdxLicenses)
              => Range(callRet.value) = { "MIT", "BSD-3-Clause" }
        /\ RawString = "Apache-2|or;MIT-1&GPL-any/X11"
              => Range(callRet.value) = { "Apache-2.0", "MIT", "GPL-3.0", "X11" } \cap spdxLicenses
        /\ RawString = "GPL-2, GPL-2.0"
              => Range(callRet.value) = { "GPL-2.0" } \cap spdxLicenses

\* "MIT and BSD-3-clause" gave MIT and the corrected BSD-3-Clause, in order.
C15_Witness ==
    /\ CalledCorrectLicenses
    /\ RawString = "MIT and BSD-3-clause"
    /\ "BSD-3-clause" \notin spdxLicenses
    /\ callRet.value = << "MIT", "BSD-3-Clause" >>

\* The lists of license IDs attached to the package components.
ComponentLicenseLists == { components[i].Licenses : i \in 2..Len(components) }

\* C16: every token correctLicenses returns, called on its own or through
\* FetchPackageLicense, is a token of the loaded vocabulary, and so is every
\* license ID attached to a Component, in the component list and in the
\* returned document.
C16_LicensesInVocabulary ==
    /\ (CalledCorrectLicenses \/ CalledFetchPackageLicense)
          => Range(callRet.value) \subseteq spdxLicenses
    /\ \A l \in ComponentLicenseLists : Range(l) \subseteq spdxLicenses
    /\ HasDocument =>
          \A i \in PackagePositions : Range(DocComponents[i].Licenses) \subseteq spdxLicenses

\* A document with a licensed component, of whose raw string one token was
\* kept after correction and another was reported invalid.
C16_Witness ==
    /\ HasDocument
    /\ \E i \in PackagePositions : DocComponents[i].Licenses = << "GPL-2.0" >>
    /\ \E k \in DOMAIN stdout :
          ~stdout[k].document /\ stdout[k].text = "Invalid license: foo"

\* C17 as claimed: no license identifier occurs twice in the list license
\* resolution returns, nor in the license list of a Component, also when
\* the raw string repeats a token or holds two variants that are corrected
\* to the same identifier.
C17_LicensesFormASet ==
    /\ (CalledCorrectLicenses \/ CalledFetchPackageLicense) => Distinct(callRet.value)
    /\ \A l \in ComponentLicenseLists : Distinct(l)

(***************************************************************************)
(* Determinism of a run.  The references below are functions of the inputs *)
(* alone (listing, license sources, dependency outputs), written without   *)
(* the worker pool.                                                        *)
(***************************************************************************)
\* The listing lines that become packages, and the document they determine.
ListedLines == SelectSeq(listOut.lines, LAMBDA l : Len(l) = 2)
ListedNames == { ListedLines[i][1] : i \in DOMAIN ListedLines }

ExpectedRef(i) == ToString(i) \o "-" \o ListedLines[i][1]

\* The reference the ComponentIndex holds for a listed name: the last one.
RefOfName(n) ==
    LET at == { i \in DOMAIN ListedLines : ListedLines[i][1] = n }
    IN  ExpectedRef(CHOOSE i \in at : \A j \in at : j <= i)

ExpectedComponents ==
    << [Name |-> RootName, Version |-> "1.0", BOMRef |-> RootRef] >>
    \o [i \in DOMAIN ListedLines |->
          [Name |-> ListedLines[i][1], Version |-> ListedLines[i][2],
           BOMRef |-> ExpectedRef(i),
           Licenses |-> ComponentLicenses(
               FetchPackageLicense(packageManager, licOut[ListedLines[i][1]],
                                   spdxLicenses).valid)]]

\* The names the dependency command prints for a package of the batch.
DeclaredDependencies(n) ==
    IF n = RootName THEN {} ELSE Range(fetchOut[n].lines) \ { "" }

ExpectedTargets(n) == { RefOfName(d) : d \in DeclaredDependencies(n) \cap ListedNames }

ExpectedEdges ==
    { [Ref |-> DocumentRef,
       To |-> { RootRef } \cup { ExpectedRef(i) : i \in DOMAIN ListedLines }] }
    \cup { [Ref |-> ExpectedRef(i), To |-> ExpectedTargets(ListedLines[i][1])] :
             i \in { j \in DOMAIN ListedLines : ExpectedTargets(ListedLines[j][1]) # {} } }

\* The edges of the document, each with its targets as a set.
DocEdges ==
    { [Ref |-> DocDependencies[e].Ref, To |-> Range(DocDependencies[e].Dependencies)] :
        e \in DOMAIN DocDependencies }

\* C18: the Components and the dependency edges (targets as a set) of a
\* returned document are determined by the package listing, the license
\* outputs and the per-package dependency outputs alone, whatever the
\* interleaving of the workers, so two runs over the same inputs agree on
\* them; the serial number of the document is one that no document of an
\* earlier run carries.
C18_SameContentFreshSerial ==
    HasDocument =>
        /\ DocComponents = ExpectedComponents
        /\ DocEdges = ExpectedEdges
        /\ genRet.bom.SerialNumber \notin issued

\* A document over a batch larger than the pool, with package edges, after
\* an earlier run had issued a serial number.
C18_Witness ==
    /\ HasDocument
    /\ Len(packageNames) > numWorkers
    /\ Cardinality(DocEdges) > 2
    /\ issued # {}
    /\ genRet.bom.SerialNumber \in Serials

\* C19: when every dependency command of the batch succeeds, the map
\* GetDependencies returns is the one the outputs determine: its keys are
\* the names of the batch and each key holds the non-blank lines of that
\* package's output, in output order, whatever the scheduling of the workers
\* and the order in which results arrive.
C19_MapDeterminedByOutputs ==
    (GdReturned /\ AllFetchesSucceed) =>
        gdRet.map = [n \in Range(packageNames) |->
                        SelectSeq(fetchOut[n].lines, LAMBDA l : l # "")]

\* A batch that repeats a name, whose output repeats a line around a blank.
C19_Witness ==
    /\ GdReturned
    /\ AllFetchesSucceed
    /\ ~Distinct(packageNames)
    /\ gdRet.err = Nil
    /\ \E n \in Range(packageNames) :
          /\ "" \in Range(fetchOut[n].lines)
          /\ gdRet.map[n] = << "b", "b" >>

(***************************************************************************)
(* Properties of the upload.                                               *)
(***************************************************************************)
Uploaded == upRet.state = "returned"

IsPutProject(k) == requests[k].method = "PUT" /\ requests[k].path = "/api/v1/project"
IsPutBom(k) == requests[k].method = "PUT" /\ requests[k].path = "/api/v1/bom"

\* The identifier a request files its project or document under.
FiledUnder(k) == IF IsPutBom(k) THEN requests[k].body.project ELSE requests[k].body.parent

\* C20: when the server answers a project creation with the conflict
\* status, createProject looks the project up by name and, the lookup
\* answering, goes on under the identifier of a project of that name that
\* the server holds: the next request of uploadSBOM (the child's creation,
\* or the push of the document) is filed under it.  When no request is
\* answered with an error status uploadSBOM returns no error and the server
\* holds the document, whether or not the distro-level or the host-level
\* project existed before.
C20_ConflictResolvesToExisting ==
    Uploaded =>
        /\ \A k \in DOMAIN requests :
              (IsPutProject(k) /\ requests[k].status = StatusConflict) =>
                 /\ k + 1 \in DOMAIN requests
                 /\ requests[k + 1].method = "GET"
                 /\ requests[k + 1].body.query = requests[k].body.name
                 /\ requests[k + 1].status = StatusOK =>
                       /\ k + 2 \in DOMAIN requests
                       /\ \E p \in dtrack.projects :
                             /\ p.name = requests[k].body.name
                             /\ FiledUnder(k + 2) = p.uuid
        /\ (\A k \in DOMAIN requests : requests[k].status # StatusError) =>
              /\ upRet.err = Nil
              /\ \E k \in DOMAIN requests : IsPutBom(k)
              /\ dtrack.boms # {}

\* Both project creations were answered with the conflict status and the
\* document was pushed under the existing host-level project.
C20_Witness ==
    /\ Uploaded
    /\ upRet.err = Nil
    /\ Len(requests) = 5
    /\ requests[1].status = StatusConflict
    /\ requests[3].status = StatusConflict
    /\ requests[5].body.project = ServerUUID(Hostname, OSVersion)
    /\ dtrack.boms # {}

IsLookup(k) == requests[k].method = "GET"

\* Request k established the project of that name: its creation was
\* answered with success, or the lookup by its name was.
Establishes(k, name) ==
    \/ /\ IsPutProject(k)
       /\ requests[k].body.name = name
       /\ requests[k].status \in {StatusOK, StatusCreated}
    \/ /\ IsLookup(k)
       /\ requests[k].body.query = name
       /\ requests[k].status = StatusOK

\* The parent is asked for first, the child after the parent is established
\* and with the parent's identifier, the push last and after the child is
\* established.
StepsInOrder ==
    /\ requests # << >> =>
          /\ IsPutProject(1)
          /\ requests[1].body.name = distro
          /\ requests[1].body.version = ""
          /\ requests[1].body.parent = NilUUID
    /\ \A k \in DOMAIN requests :
          (IsPutProject(k) /\ requests[k].body.name = Hostname) =>
             /\ requests[k].body.version = OSVersion
             /\ requests[k].body.parent = ServerUUID(distro, "")
             /\ \E j \in 1..(k - 1) : Establishes(j, distro)
    /\ \A k \in DOMAIN requests :
          IsPutBom(k) =>
             /\ k = Len(requests)
             /\ \E j \in 1..(k - 1) : Establishes(j, Hostname)
             /\ \E j \in 1..(k - 1) : Establishes(j, distro)

\* A request answered with an error status is the last one of the upload.
NothingAfterFailure ==
    /\ \A k \in DOMAIN requests : requests[k].status = StatusError => k = Len(requests)
    /\ upRet.err # Nil =>
          \A k \in DOMAIN requests : IsPutBom(k) => requests[k].status = StatusError

\* The document is filed under the host-level project of this run, the one
\* of name hostname and version osVersion.
FiledUnderChild ==
    /\ \A k \in DOMAIN requests :
          IsPutBom(k) => requests[k].body.project = ServerUUID(Hostname, OSVersion)
    /\ \A b \in dtrack.boms : b.project = ServerUUID(Hostname, OSVersion)

\* C21: uploadSBOM establishes the distro-level parent first, then the
\* host-level child with the parent's identifier as its parent, then pushes
\* the document associated with the child's identifier; if a project step
\* fails no document is pushed.
C21_StepsInOrder ==
    Uploaded => StepsInOrder /\ NothingAfterFailure /\ FiledUnderChild

\* The part of C21 that holds: order of the steps and no push after a failure.
UploadOrderOnly == Uploaded => StepsInOrder /\ NothingAfterFailure

(***************************************************************************)
(* Properties of the channels and goroutines of GetDependencies.           *)
(***************************************************************************)
\* Results the collector has taken off the results channel: those it put
\* into dependencyMap and, on the error path, the one that made it return.
Received == collected + (IF GdReturned /\ gdRet.err # Nil THEN 1 ELSE 0)

\* C22: GetDependencies returns only after the collector has received
\* exactly len(packageNames) results, whatever the order of their arrival.
C22_ReturnsAfterAllResults == GdReturned => Received = Len(packageNames)

\* C22, amended: GetDependencies returns a map only after the collector has
\* received exactly len(packageNames) results, whatever the order of their
\* arrival, and nothing is left on the results channel; it returns an error
\* on receiving the first result that holds one, after at least one and at
\* most len(packageNames) results.
C22_MapAfterAllResults ==
    GdReturned =>
        IF gdRet.err = Nil
        THEN /\ Received = Len(packageNames)
             /\ results = << >>
             /\ BagCardinality(fetching) + BagCardinality(sending) = 0
        ELSE /\ Received >= 1
             /\ Received <= Len(packageNames)
             /\ SomeFetchFails

\* A batch longer than the worker count came back whole.
C22_Witness ==
    /\ GdReturned
    /\ gdRet.err = Nil
    /\ Len(packageNames) > numWorkers
    /\ Received = Len(packageNames)
    /\ DOMAIN gdRet.map = Range(packageNames)

\* The collector is about to receive a result that is not the one of the
\* next name of the batch.
OutOfOrderArrival ==
    /\ pc = "collect"
    /\ results # << >>
    /\ collected < Len(packageNames)
    /\ Head(results).packageName # packageNames[collected + 1]

\* C23: no send of GetDependencies blocks.  The producer, with names left to
\* enqueue, finds room on the jobs channel, whether or not a worker has taken
\* a job; a worker that holds a result finds room on the results channel,
\* also after the collector has stopped receiving.
C23_SendsNeverBlock ==
    /\ (pc = "send" /\ sent < Len(packageNames)) => Len(jobs) < ChanCap
    /\ sending # EmptyBag => Len(results) < ChanCap
    /\ Len(jobs) <= sent
    /\ Len(results) + BagCardinality(sending) + BagCardinality(fetching) + Len(jobs)
          <= ChanCap

\* The collector has returned on an error and left results on the channel;
\* a worker holds one more result to deliver, and every name of a batch
\* longer than the worker count had been enqueued.
C23_Witness ==
    /\ pc = "failed"
    /\ results # << >>
    /\ sending # EmptyBag
    /\ sent = Len(packageNames)
    /\ Len(packageNames) > numWorkers

\* The producer has enqueued every name before any worker took a job.
AllEnqueuedFirst ==
    /\ pc = "send"
    /\ Len(jobs) = Len(packageNames)
    /\ Len(packageNames) > numWorkers
    /\ idle = numWorkers

(***************************************************************************)
(* Construction order of the shared, read-only structures.                 *)
(***************************************************************************)
WorkersStarted ==
    idle + BagCardinality(fetching) + BagCardinality(sending) + exited > 0

\* spdxLicenses holds the enum of a schema file that was given, read and parsed.
VocabularyLoaded ==
    /\ spdxSchema.given
    /\ spdxSchema.readable
    /\ spdxSchema.parses
    /\ spdxLicenses = Range(spdxSchema.enum)

\* componentMap has an entry for every listed package, the reference of a
\* component of that name.
IndexComplete ==
    /\ DOMAIN componentMap = { packages[i].Name : i \in DOMAIN packages }
    /\ \A n \in DOMAIN componentMap :
          \E i \in DOMAIN components :
             components[i].Name = n /\ components[i].BOMRef = componentMap[n]

PackagesListed == subprocesses # EmptyBag \/ packageManager # Nil \/ packages # << >>

\* C24: the vocabulary is loaded before generateSBOM runs, so that a run
\* with a missing, unreadable or unparsable schema lists no package; the
\* component index is complete and the vocabulary loaded when the first
\* worker is started; and from then on no step writes either of them.
C24_ConstructBeforeSpawn ==
    /\ [](call = NoCall =>
            /\ PackagesListed => VocabularyLoaded
            /\ WorkersStarted => IndexComplete /\ VocabularyLoaded)
    /\ [][WorkersStarted =>
             componentMap' = componentMap /\ spdxLicenses' = spdxLicenses]_vars

\* Workers are fetching for a listing of two packages, with the index and
\* the vocabulary in place.
C24_Witness ==
    /\ call = NoCall
    /\ fetching # EmptyBag
    /\ Cardinality(DOMAIN componentMap) >= 2
    /\ IndexComplete
    /\ VocabularyLoaded
    /\ spdxLicenses # {}

\* A run whose schema file does not parse has ended without listing.
HaltedOnSchema ==
    /\ pc = "fatal"
    /\ spdxSchema.given
    /\ ~spdxSchema.parses
    /\ ~PackagesListed

\* A step of a worker: it takes a job, finishes a fetch, delivers a result
\* or leaves its loop.
WorkerStep ==
    \/ idle' # idle
    \/ fetching' # fetching
    \/ sending' # sending
    \/ exited' # exited

\* C25: no worker step changes the result map, the count of collected
\* results or the return value; the map changes only in a step in which the
\* collector takes the head of the results channel, and the entry written is
\* that result's.
C25_OnlyCollectorWritesMap ==
    [][/\ WorkerStep =>
            /\ dependencyMap' = dependencyMap
            /\ collected' = collected
            /\ gdRet' = gdRet
       /\ dependencyMap' # dependencyMap =>
            /\ pc = "collect"
            /\ results # << >>
            /\ results' = Tail(results)
            /\ dependencyMap' = MapPut(dependencyMap, Head(results).packageName,
                                       Head(results).dependencies)
      ]_vars

\* The collector has written entries while workers still fetch and hold
\* results.
C25_Witness ==
    /\ pc = "collect"
    /\ DOMAIN dependencyMap # {}
    /\ fetching # EmptyBag
    /\ sending # EmptyBag
    /\ results # << >>

(***************************************************************************)
(* Properties of the batch handed to GetDependencies.                      *)
(***************************************************************************)
PackageNamesListed == { packages[i].Name : i \in DOMAIN packages }

\* C26: for every package listing, the name of each listed package is an
\* element of the batch passed to GetDependencies, and the synthetic root
\* contributes no element: every element is the name of a listed package.
C26_BatchHoldsEveryListedName ==
    /\ PackageNamesListed \subseteq Range(packageNames)
    /\ Range(packageNames) \subseteq PackageNamesListed

(***************************************************************************)
(* Termination of GetDependencies and of its workers.                      *)
(***************************************************************************)
AllWorkersExited == exited = numWorkers

\* C27: with every fetch terminating, a GetDependencies that was called
\* returns, for a batch of any length; with no names it returns an empty
\* map and no error; after the return, on the success and on the error
\* path, the jobs channel is closed and a worker holding a result has room
\* on the results channel, so that no worker is blocked, and all numWorkers
\* workers exit for as long as the process lives.
C27_TerminatesAndWorkersExit ==
    /\ (pc = "send") ~> GdReturned
    /\ GdReturned ~> (AllWorkersExited \/ ~ProcessAlive)
    /\ [](GdReturned /\ packageNames = << >> =>
             gdRet.err = Nil /\ DOMAIN gdRet.map = {})
    /\ [](GdReturned =>
             /\ jobsClosed
             /\ sending # EmptyBag => Len(results) < ChanCap)

\* On the error path every worker has exited while the process still lives,
\* leaving results nobody receives on the channel.
C27_Witness ==
    /\ pc = "failed"
    /\ gdRet.err # Nil
    /\ AllWorkersExited
    /\ results # << >>
    /\ Len(packageNames) > numWorkers

\* A batch of no names has returned.
ReturnedForNoNames ==
    /\ GdReturned
    /\ packageNames = << >>
    /\ AllWorkersExited

(***************************************************************************)
(* One fetch per dispatched job.                                           *)
(***************************************************************************)
Occurrences(x, seq) == Cardinality({ i \in DOMAIN seq : seq[i] = x })

\* Dependency commands started for the name n.
FetchesOf(n) == CopiesIn(Cmd("dependencies", packageManager, n), subprocesses)

\* C28: in a run of GetDependencies in which all fetches succeed, no name
\* is fetched more often than it occurs in the batch at any time, every
\* fetch started is a job taken off the channel, and when the call has
\* returned every entry of the batch has been fetched exactly once, with
\* one result received per entry and none left over.
C28_EachEntryFetchedOnce ==
    AllFetchesSucceed =>
        /\ \A n \in Range(packageNames) :
              /\ FetchesOf(n) <= Occurrences(n, packageNames)
              /\ FetchesOf(n) + Occurrences(n, jobs)
                    = Occurrences(n, SubSeq(packageNames, 1, sent))
        /\ BagCardinality(fetching) + BagCardinality(sending) + Len(results) + collected
              = sent - Len(jobs)
        /\ GdReturned =>
              /\ \A n \in Range(packageNames) :
                    FetchesOf(n) = Occurrences(n, packageNames)
              /\ collected = Len(packageNames)
              /\ jobs = << >>
              /\ results = << >>
              /\ fetching = EmptyBag
              /\ sending = EmptyBag

\* A batch longer than the worker count has returned, each name fetched once.
C28_Witness ==
    /\ AllFetchesSucceed
    /\ GdReturned
    /\ Len(packageNames) > numWorkers
    /\ \A n \in Range(packageNames) : FetchesOf(n) = 1

\* A batch that repeats a name has returned, the name fetched twice.
RepeatedNameFetchedTwice ==
    /\ AllFetchesSucceed
    /\ GdReturned
    /\ \E n \in Range(packageNames) : FetchesOf(n) = 2

(***************************************************************************)
(* Self-references among the dependency edges.                             *)
(***************************************************************************)
\* C29: no dependency edge of a package lists that package's own reference
\* among its targets, whatever raw dependency list the fetcher returned for
\* it, one that holds the package's own name included.
C29_NoSelfEdge ==
    HasDocument =>
        \A i \in PackagePositions :
           \A e \in EdgesOf(DocComponents[i].BOMRef) :
              DocComponents[i].BOMRef \notin Range(DocDependencies[e].Dependencies)

(***************************************************************************)
(* What a run writes to standard output.                                   *)
(***************************************************************************)
SuccessfulRun == pc = "exit" /\ HasDocument /\ genRet.err = Nil

\* C30: with no output file configured, a successful run has written to
\* standard output the serialized document and nothing else, neither before
\* nor after it.
C30_StdoutHoldsOnlyTheDocument ==
    (SuccessfulRun /\ output = "") => stdout = << Doc(Marshal(genRet.bom)) >>

====
